---- MODULE Spec2Model ----
(***************************************************************************)
(* terratools/lookup_tables.py: SeismicLookupTable (construction, get_vals, *)
(* interp_grid, interp_points) and harmonic_mean_comp.                      *)
(*                                                                          *)
(* Numbers.  Table samples and query coordinates are integers; every       *)
(* computed value is an exact rational <<n, d>> in lowest terms with d > 0. *)
(* A table row is the tuple <<P, T, c2, ..., c9>>, so column c of the numpy *)
(* array (0-based) is component c + 1 of the tuple.                         *)
(***************************************************************************)
EXTENDS Integers, Sequences, FiniteSets

VARIABLES file, state, table, pres, temp, pstep, fields, ret

vars == <<file, state, table, pres, temp, pstep, fields, ret>>

(***************************************************************************)
(* Bounds of the model.                                                     *)
(***************************************************************************)
MaxP == 3      \* at most this many pressure blocks in an input file
MaxT == 3      \* at most this many temperatures per pressure block
MaxLen == 2    \* longest press / temps sequence given to interp_grid / interp_points

(***************************************************************************)
(* Exact arithmetic.                                                        *)
(***************************************************************************)
Abs(x) == IF x < 0 THEN -x ELSE x

RECURSIVE GCD(_, _)
GCD(a, b) == IF b = 0 THEN a ELSE GCD(b, a % b)

Rat(n, d) ==
    LET g == GCD(Abs(n), Abs(d))
        s == IF d < 0 THEN -1 ELSE 1
    IN  <<(s * n) \div g, (s * d) \div g>>

RInt(i) == <<i, 1>>
RAdd(x, y) == Rat(x[1] * y[2] + y[1] * x[2], x[2] * y[2])
RSub(x, y) == Rat(x[1] * y[2] - y[1] * x[2], x[2] * y[2])
RMul(x, y) == Rat(x[1] * y[1], x[2] * y[2])

Min(a, b) == IF a < b THEN a ELSE b
Max(a, b) == IF a > b THEN a ELSE b
SetMin(S) == CHOOSE x \in S : \A y \in S : x <= y
SetMax(S) == CHOOSE x \in S : \A y \in S : x >= y

(***************************************************************************)
(* numpy / Python primitives used by the class.                            *)
(***************************************************************************)
\* self.table[:, c]
Column(tb, c) == [k \in 1..Len(tb) |-> tb[k][c + 1]]

ColSet(tb, c) == {tb[k][c + 1] : k \in 1..Len(tb)}

\* np.unique: the sorted distinct values, as a sequence
RECURSIVE NpUnique(_)
NpUnique(S) ==
    IF S = {} THEN <<>> ELSE <<SetMin(S)>> \o NpUnique(S \ {SetMin(S)})

\* seq[i] for a Python index i (0-based, negative indices count from the end):
\* the 1-based position read, or 0 when Python raises IndexError.
PyIndex(n, i) ==
    IF i >= 0 /\ i < n THEN i + 1
    ELSE IF i < 0 /\ i >= -n THEN n + i + 1
    ELSE 0

(***************************************************************************)
(* Input files.  np.genfromtxt yields the rows of the file at table_path.   *)
(* A file holds one block of rows per pressure, the blocks in any order,    *)
(* each block in increasing temperature; the last block may be incomplete.  *)
(***************************************************************************)
PressVal(i) == 4 * i
TempVal(j) == j * j - j + 4

\* the sample written in column c (2..9) of the row of node (p, t)
Sample(p, t, c) == p * p + t * t + c * p * t + c

Row(p, t) == <<p, t>> \o [k \in 1..8 |-> Sample(p, t, k + 1)]

\* the orders in which a file lists its n pressure blocks: increasing,
\* decreasing, and the increasing order started at any block
Rotated(n, r) == [k \in 1..n |-> PressVal(((k - 1 + r) % n) + 1)]

PressOrders ==
    UNION {{Rotated(n, r) : r \in 0..(n - 1)} \cup {[k \in 1..n |-> PressVal(n + 1 - k)]} :
            n \in 2..MaxP}

TempAxes == {[j \in 1..n |-> TempVal(j)] : n \in 2..MaxT}

FullTable(po, ts) ==
    [k \in 1..(Len(po) * Len(ts)) |->
        Row(po[((k - 1) \div Len(ts)) + 1], ts[((k - 1) % Len(ts)) + 1])]

\* rows missing at the end of the file
Drops == {0, 1}

Files ==
    {SubSeq(FullTable(po, ts), 1, Len(po) * Len(ts) - d) :
        po \in PressOrders, ts \in TempAxes, d \in Drops}

(***************************************************************************)
(* SeismicLookupTable.__init__                                              *)
(***************************************************************************)
FieldNames == {"vp", "vs", "vp_ani", "vs_ani", "vphi", "density", "qs", "t_sol"}

FieldCol(name) ==
    CASE name = "vp" -> 2 [] name = "vs" -> 3 [] name = "vp_ani" -> 4
      [] name = "vs_ani" -> 5 [] name = "vphi" -> 6 [] name = "density" -> 7
      [] name = "qs" -> 8 [] name = "t_sol" -> 9

FieldUnit(name) ==
    CASE name \in {"vp", "vs", "vp_ani", "vs_ani", "vphi"} -> "km/s"
      [] name = "density" -> "$kg/m^3$"
      [] name = "qs" -> "Hz"
      [] name = "t_sol" -> "K"

\* self.table[0+(i*self.pstep):self.pstep+(i*self.pstep), c] for the 0-based i
\* (a slice is clamped to the rows there are, never an error)
BlockSlice(tb, step, i, c) ==
    [k \in 1..(Min(step + i * step, Len(tb)) - Min(i * step, Len(tb))) |-> tb[i * step + k][c + 1]]

\* Vp[:,i] = <slice>: numpy copies a slice of the column's length, broadcasts a
\* slice of length 1, and raises ValueError for any other length.
AssignOk(tb, step, np, nt) ==
    \A i \in 0..(np - 1) : Len(BlockSlice(tb, step, i, 2)) \in {nt, 1}

\* the (len(temp), len(pres)) array of column c; grid[j][i] is numpy's [j-1, i-1]
FieldGrid(tb, step, np, nt, c) ==
    [j \in 1..nt |->
        [i \in 1..np |->
            LET sl == BlockSlice(tb, step, i - 1, c)
            IN  IF Len(sl) = 1 THEN sl[1] ELSE sl[j]]]

FieldDict(tb, step, np, nt) ==
    [name \in FieldNames |->
        [idx |-> FieldCol(name),
         grid |-> FieldGrid(tb, step, np, nt, FieldCol(name)),
         unit |-> FieldUnit(name)]]

NoCall ==
    [op |-> "none", args |-> <<>>, status |-> "ok", value |-> <<>>, printed |-> {},
     pl |-> 0, pu |-> 0, tl |-> 0, tu |-> 0]

Init ==
    /\ file \in Files
    /\ state = "none"
    /\ table = <<>>
    /\ pres = <<>>
    /\ temp = <<>>
    /\ pstep = 0
    /\ fields = <<>>
    /\ ret = NoCall

\* basalt = SeismicLookupTable(table_path); an exception leaves no object.
\* (The interp2d objects of lines 64-71 are read by no method and are left out.)
Construct ==
    /\ state = "none"
    /\ LET tb == file
           ps == NpUnique(ColSet(tb, 0))
           ts == NpUnique(ColSet(tb, 1))
           step == Len(ts)
       IN  IF AssignOk(tb, step, Len(ps), Len(ts))
           THEN /\ state' = "built"
                /\ table' = tb
                /\ pres' = ps
                /\ temp' = ts
                /\ pstep' = step
                /\ fields' = FieldDict(tb, step, Len(ps), Len(ts))
                /\ ret' = NoCall
           ELSE /\ state' = "failed"
                /\ ret' = [NoCall EXCEPT !.op = "__init__", !.status = "ValueError"]
                /\ UNCHANGED <<table, pres, temp, pstep, fields>>
    /\ UNCHANGED file

\* a table object exists and no call is in progress
Idle == state = "built" /\ ret.op = "none"

\* the caller takes the result (or the exception) of the last call
Return ==
    /\ ret.op # "none"
    /\ ret' = NoCall
    /\ UNCHANGED <<file, state, table, pres, temp, pstep, fields>>


(***************************************************************************)
(* utils.norm_vals and utils.int_linear (terratools/utils.py)               *)
(***************************************************************************)
\* frac = (value - low) / (high - low), and 0 on a degenerate axis
norm_vals(val, hi, lo) == IF hi = lo THEN RInt(0) ELSE Rat(val - lo, hi - lo)

\* along temperature at both pressure bounds, then along pressure
int_linear(vll, vlh, vhl, vhh, tnorm, pnorm) ==
    LET a == RAdd(RInt(vll), RMul(RInt(vlh - vll), tnorm))
        b == RAdd(RInt(vhl), RMul(RInt(vhh - vhl), tnorm))
    IN  RAdd(a, RMul(RSub(b, a), pnorm))

(***************************************************************************)
(* SeismicLookupTable.get_vals                                              *)
(***************************************************************************)
\* np.where(np.abs(col-val) == np.min(np.abs(col-val)))[0][0], a 0-based row
Nearest(col, val) ==
    LET d(k) == Abs(col[k] - val)
        m == SetMin({d(k) : k \in 1..Len(col)})
    IN  SetMin({k \in 1..Len(col) : d(k) = m}) - 1

\* Bounds with an exact match routed to the first branch (<= 0 for < 0)
BoundsTieLow(tb, c, step, val) ==
    LET col == Column(tb, c)
        lo == SetMin(ColSet(tb, c))
        hi == SetMax(ColSet(tb, c))
        ix == Nearest(col, val)
        up == PyIndex(Len(col), ix + step)
        dn == PyIndex(Len(col), ix - step)
    IN  IF val < lo THEN [err |-> FALSE, l |-> lo, u |-> lo, clip |-> "low"]
        ELSE IF val > hi THEN [err |-> FALSE, l |-> hi, u |-> hi, clip |-> "high"]
        ELSE IF col[ix + 1] - val <= 0
        THEN IF up = 0
             THEN [err |-> TRUE, l |-> 0, u |-> 0, clip |-> "no"]
             ELSE [err |-> FALSE, l |-> col[ix + 1], u |-> col[up], clip |-> "no"]
        ELSE IF dn = 0
             THEN [err |-> TRUE, l |-> 0, u |-> 0, clip |-> "no"]
             ELSE [err |-> FALSE, l |-> col[dn], u |-> col[ix + 1], clip |-> "no"]

\* The bound search on column c of the table, whose neighbouring axis entries
\* are taken to lie `step` rows apart (pstep for pressure, 1 for temperature).
Bounds(tb, c, step, val) ==
    LET col == Column(tb, c)
        lo == SetMin(ColSet(tb, c))
        hi == SetMax(ColSet(tb, c))
        ix == Nearest(col, val)
        up == PyIndex(Len(col), ix + step)
        dn == PyIndex(Len(col), ix - step)
    IN  IF val < lo THEN [err |-> FALSE, l |-> lo, u |-> lo, clip |-> "low"]
        ELSE IF val > hi THEN [err |-> FALSE, l |-> hi, u |-> hi, clip |-> "high"]
        ELSE IF col[ix + 1] - val < 0
        THEN IF up = 0
             THEN [err |-> TRUE, l |-> 0, u |-> 0, clip |-> "no"]
             ELSE [err |-> FALSE, l |-> col[ix + 1], u |-> col[up], clip |-> "no"]
        ELSE IF dn = 0
             THEN [err |-> TRUE, l |-> 0, u |-> 0, clip |-> "no"]
             ELSE [err |-> FALSE, l |-> col[dn], u |-> col[ix + 1], clip |-> "no"]

PressureBounds(tb, step, pval) == Bounds(tb, 0, step, pval)

TemperatureBounds(tb, tval) == Bounds(tb, 1, 1, tval)

PressureMsg(clip) ==
    IF clip = "low" THEN {"#Error - Pressure less than minimum value in lookup tables"}
    ELSE IF clip = "high" THEN {"#Warning - Pressure exceeds maximum value in lookup tables"}
    ELSE {}

TemperatureMsg(clip) ==
    IF clip = "low" THEN {"#Warning - Temperature less than minimum value in lookup tables"}
    ELSE IF clip = "high" THEN {"#Warning - Temperature exceeds maximum value in lookup tables"}
    ELSE {}

\* self.table[np.intersect1d(np.where(P == p), np.where(T == t)), c]
CornerVals(tb, p, t, c) ==
    LET ix == NpUnique({k \in 1..Len(tb) : tb[k][1] = p /\ tb[k][2] = t})
    IN  [n \in 1..Len(ix) |-> tb[ix[n]][c + 1]]

\* numpy broadcasting of four 1-D arrays: the common length, or -1 (ValueError)
BroadcastLen(a, b, c, d) ==
    LET L == {Len(a), Len(b), Len(c), Len(d)} \ {1}
    IN  IF L = {} THEN 1 ELSE IF Cardinality(L) = 1 THEN SetMin(L) ELSE -1

Elem(a, k) == IF Len(a) = 1 THEN a[1] ELSE a[k]

\* InterpColumn with the corners (pl,tu) and (pu,tl) handed over in each other's place
InterpColumnSwapped(tb, pb, tbnd, c, tnorm, pnorm) ==
    LET ll == CornerVals(tb, pb.l, tbnd.l, c)
        lu == CornerVals(tb, pb.l, tbnd.u, c)
        ul == CornerVals(tb, pb.u, tbnd.l, c)
        uu == CornerVals(tb, pb.u, tbnd.u, c)
        n == BroadcastLen(ll, lu, ul, uu)
    IN  IF n < 0 THEN <<"ValueError">>
        ELSE [k \in 1..n |->
                int_linear(Elem(ll, k), Elem(ul, k), Elem(lu, k), Elem(uu, k), tnorm, pnorm)]

\* int_linear applied to the four corner arrays of column c
InterpColumn(tb, pb, tbnd, c, tnorm, pnorm) ==
    LET ll == CornerVals(tb, pb.l, tbnd.l, c)
        lu == CornerVals(tb, pb.l, tbnd.u, c)
        ul == CornerVals(tb, pb.u, tbnd.l, c)
        uu == CornerVals(tb, pb.u, tbnd.u, c)
        n == BroadcastLen(ll, lu, ul, uu)
    IN  IF n < 0 THEN <<"ValueError">>
        ELSE [k \in 1..n |->
                int_linear(Elem(ll, k), Elem(lu, k), Elem(ul, k), Elem(uu, k), tnorm, pnorm)]

\* the result of get_vals(pval, tval): status, the tuple (Vp, Vs, Vp_an, Vs_an,
\* Vphi, Dens) of arrays, the lines printed, and the bounds it selected
get_vals(tb, step, pval, tval) ==
    LET pb == PressureBounds(tb, step, pval)
        tbnd == TemperatureBounds(tb, tval)
        tnorm == norm_vals(tval, tbnd.u, tbnd.l)
        pnorm == norm_vals(pval, pb.u, pb.l)
    IN  IF pb.err
        THEN [status |-> "IndexError", value |-> <<>>, printed |-> {},
              pl |-> 0, pu |-> 0, tl |-> 0, tu |-> 0]
        ELSE IF tbnd.err
        THEN [status |-> "IndexError", value |-> <<>>, printed |-> PressureMsg(pb.clip),
              pl |-> pb.l, pu |-> pb.u, tl |-> 0, tu |-> 0]
        ELSE [status |-> "ok",
              value |-> [k \in 1..6 |-> InterpColumn(tb, pb, tbnd, k + 1, tnorm, pnorm)],
              printed |-> PressureMsg(pb.clip) \cup TemperatureMsg(tbnd.clip),
              pl |-> pb.l, pu |-> pb.u, tl |-> tbnd.l, tu |-> tbnd.u]

(***************************************************************************)
(* scipy.interpolate.interp2d(self.pres, self.temp, grid), kind 'linear'    *)
(***************************************************************************)
\* the index k of the axis interval [ax[k], ax[k+1]] used for the clamped x
Interval(ax, x) ==
    IF x >= ax[Len(ax)] THEN Len(ax) - 1
    ELSE SetMax({k \in 1..(Len(ax) - 1) : k = 1 \/ ax[k] <= x})

Clamp(ax, x) == Max(ax[1], Min(x, ax[Len(ax)]))

\* the interpolant at one point; outside the axes the nearest edge is used
Interp2dAt(xs, ys, z, x, y) ==
    LET cx == Clamp(xs, x)
        cy == Clamp(ys, y)
        i == Interval(xs, cx)
        j == Interval(ys, cy)
        fx == Rat(cx - xs[i], xs[i + 1] - xs[i])
        fy == Rat(cy - ys[j], ys[j + 1] - ys[j])
        a == RAdd(RInt(z[j][i]), RMul(RInt(z[j][i + 1] - z[j][i]), fx))
        b == RAdd(RInt(z[j + 1][i]), RMul(RInt(z[j + 1][i + 1] - z[j + 1][i]), fx))
    IN  RAdd(a, RMul(RSub(b, a), fy))

\* np.sort of a sequence
RECURSIVE NpSort(_)
NpSort(s) ==
    IF s = <<>> THEN <<>>
    ELSE LET k == CHOOSE k \in 1..Len(s) : \A m \in 1..Len(s) : s[k] <= s[m]
         IN  <<s[k]>> \o NpSort([m \in 1..(Len(s) - 1) |-> IF m < k THEN s[m] ELSE s[m + 1]])

\* interp2d.__call__(x, y): both inputs are sorted, the interpolant is evaluated
\* on their product into an array of shape (len(y), len(x)), and an array with
\* a single row is returned as that row.
Interp2dCall(xs, ys, z, x, y) ==
    LET sx == NpSort(x)
        sy == NpSort(y)
        full == [j \in 1..Len(sy) |->
                    [i \in 1..Len(sx) |-> Interp2dAt(xs, ys, z, sx[i], sy[j])]]
    IN  IF Len(sy) = 1
        THEN [shape |-> <<Len(sx)>>, data |-> full[1]]
        ELSE [shape |-> <<Len(sy), Len(sx)>>, data |-> full]

(***************************************************************************)
(* SeismicLookupTable.interp_grid and interp_points                        *)
(***************************************************************************)
\* str.lower() on the field names callers pass
Lower(name) ==
    CASE name = "Vs" -> "vs" [] name = "VP" -> "vp" [] OTHER -> name

FieldArgs == {"Vs", "rho"}

PElems == {PressVal(1) - 1, PressVal(2)}
TElems == {TempVal(1), TempVal(1) + 1, TempVal(2)}

SeqsOf(S, lo) == UNION {[1..n -> S] : n \in lo..MaxLen}

\* interp_grid calling grid(temps, press)
interp_grid_swapped(flds, ps, ts, press, temps, field) ==
    IF Lower(field) \notin DOMAIN flds
    THEN [status |-> "KeyError", value |-> <<>>]
    ELSE [status |-> "ok",
          value |-> Interp2dCall(ps, ts, flds[Lower(field)].grid, temps, press)]

interp_grid(flds, ps, ts, press, temps, field) ==
    IF Lower(field) \notin DOMAIN flds
    THEN [status |-> "KeyError", value |-> <<>>]
    ELSE [status |-> "ok",
          value |-> Interp2dCall(ps, ts, flds[Lower(field)].grid, press, temps)]

InterpGrid(press, temps, field) ==
    /\ Idle
    /\ LET r == interp_grid(fields, pres, temp, press, temps, field)
       IN  ret' = [NoCall EXCEPT !.op = "interp_grid", !.args = <<press, temps, field>>,
                                 !.status = r.status, !.value = r.value]
    /\ UNCHANGED <<file, state, table, pres, temp, pstep, fields>>

\* press = [press] if type(press)==int or type(press)==float else press
\* (an argument is [scalar |-> TRUE, items |-> <<x>>] for the number x and
\*  [scalar |-> FALSE, items |-> s] for the sequence s)
Promote(arg) == arg.items

Scalars(S) == {[scalar |-> TRUE, items |-> <<x>>] : x \in S}
Lists(S) == {[scalar |-> FALSE, items |-> s] : s \in SeqsOf(S, 0)}

\* out[i] = grid(press[i], temps[i]) for i in range(len(press))
interp_points(flds, ps, ts, press, temps, field) ==
    LET pr == Promote(press)
        tm == Promote(temps)
    IN  IF Lower(field) \notin DOMAIN flds
        THEN [status |-> "KeyError", value |-> <<>>]
        ELSE IF Len(tm) < Len(pr)
        THEN [status |-> "IndexError", value |-> <<>>]
        ELSE [status |-> "ok",
              value |-> [i \in 1..Len(pr) |->
                            Interp2dAt(ps, ts, flds[Lower(field)].grid, pr[i], tm[i])]]

\* InterpPoints with out a zeroed view of the grid's first row, not a new array
InterpPointsInPlace(press, temps, field) ==
    /\ Idle
    /\ LET r == interp_points(fields, pres, temp, press, temps, field)
       IN  /\ ret' = [NoCall EXCEPT !.op = "interp_points", !.args = <<press, temps, field>>,
                                    !.status = r.status, !.value = r.value]
           /\ fields' = IF Lower(field) \in DOMAIN fields
                        THEN [fields EXCEPT ![Lower(field)].grid[1] = [i \in 1..Len(pres) |-> 0]]
                        ELSE fields
    /\ UNCHANGED <<file, state, table, pres, temp, pstep>>

InterpPoints(press, temps, field) ==
    /\ Idle
    /\ LET r == interp_points(fields, pres, temp, press, temps, field)
       IN  ret' = [NoCall EXCEPT !.op = "interp_points", !.args = <<press, temps, field>>,
                                 !.status = r.status, !.value = r.value]
    /\ UNCHANGED <<file, state, table, pres, temp, pstep, fields>>



PQuery == (PressVal(1) - 1)..(PressVal(MaxP) + 1)
TQuery == (TempVal(1) - 1)..(TempVal(MaxT) + 1)

GetVals(pval, tval) ==
    /\ Idle
    /\ LET r == get_vals(table, pstep, pval, tval)
       IN  ret' = [op |-> "get_vals", args |-> <<pval, tval>>, status |-> r.status,
                   value |-> r.value, printed |-> r.printed,
                   pl |-> r.pl, pu |-> r.pu, tl |-> r.tl, tu |-> r.tu]
    /\ UNCHANGED <<file, state, table, pres, temp, pstep, fields>>

Next ==
    \/ Construct
    \/ Idle /\ \E pval \in PQuery, tval \in TQuery : GetVals(pval, tval)
    \/ Idle /\ \E press \in SeqsOf(PElems, 1), temps \in SeqsOf(TElems, 1), field \in FieldArgs :
            InterpGrid(press, temps, field)
    \/ Idle /\ \E press \in Scalars(PElems) \cup Lists(PElems),
                  temps \in Scalars(TElems) \cup Lists(TElems), field \in FieldArgs :
            InterpPoints(press, temps, field)
    \/ Return

Spec == Init /\ [][Next]_vars


(***************************************************************************)
(* harmonic_mean_comp.  A float is [k |-> "fin", v |-> <<n, d>>] or one of  *)
(* the IEEE specials "inf", "ninf", "nan".  Arguments are Python floats     *)
(* (division by zero raises ZeroDivisionError) or numpy values such as the  *)
(* arrays get_vals returns (division by zero yields inf or nan).            *)
(***************************************************************************)
MaxVal == 2    \* component values range over -1..MaxVal

Fin(r) == [k |-> "fin", v |-> r]
Special(kind) == [k |-> kind, v |-> <<0, 1>>]
DivError == [k |-> "ZeroDivisionError", v |-> <<0, 1>>]

IsZero(x) == x.k = "fin" /\ x.v[1] = 0

\* 1/x and 1./x
FRecip(x, numpy) ==
    CASE x.k = "ZeroDivisionError" -> x
      [] x.k = "nan" -> x
      [] x.k \in {"inf", "ninf"} -> Fin(<<0, 1>>)
      [] IsZero(x) -> IF numpy THEN Special("inf") ELSE DivError
      [] OTHER -> Fin(Rat(x.v[2], x.v[1]))

FSign(x) ==
    CASE x.k = "inf" -> 1
      [] x.k = "ninf" -> -1
      [] OTHER -> IF x.v[1] > 0 THEN 1 ELSE IF x.v[1] < 0 THEN -1 ELSE 0

FMul(x, y) ==
    CASE x.k = "ZeroDivisionError" -> x
      [] y.k = "ZeroDivisionError" -> y
      [] x.k = "nan" \/ y.k = "nan" -> Special("nan")
      [] x.k = "fin" /\ y.k = "fin" -> Fin(RMul(x.v, y.v))
      [] OTHER -> IF FSign(x) * FSign(y) = 0 THEN Special("nan")
                  ELSE IF FSign(x) * FSign(y) > 0 THEN Special("inf")
                  ELSE Special("ninf")

FAdd(x, y) ==
    CASE x.k = "ZeroDivisionError" -> x
      [] y.k = "ZeroDivisionError" -> y
      [] x.k = "nan" \/ y.k = "nan" -> Special("nan")
      [] x.k = "fin" /\ y.k = "fin" -> Fin(RAdd(x.v, y.v))
      [] x.k = "fin" -> y
      [] y.k = "fin" -> x
      [] OTHER -> IF x.k = y.k THEN x ELSE Special("nan")

harmonic_mean_comp(numpy, bas, lhz, hzb, bas_fr, lhz_fr, hzb_fr) ==
    LET m1 == FMul(FRecip(Fin(RInt(bas)), numpy), Fin(bas_fr))
        m2 == FMul(FRecip(Fin(RInt(lhz)), numpy), Fin(lhz_fr))
        m3 == FMul(FRecip(Fin(RInt(hzb)), numpy), Fin(hzb_fr))
    IN  FRecip(FAdd(FAdd(m1, m2), m3), numpy)

CompVals == -1..MaxVal
Fractions == {<<0, 1>>, <<1, 2>>, <<1, 1>>}

HarmonicMeanComp(numpy, bas, lhz, hzb, bas_fr, lhz_fr, hzb_fr) ==
    /\ ret.op = "none"
    /\ LET h == harmonic_mean_comp(numpy, bas, lhz, hzb, bas_fr, lhz_fr, hzb_fr)
       IN  ret' = [NoCall EXCEPT !.op = "harmonic_mean_comp",
                                 !.args = <<numpy, bas, lhz, hzb, bas_fr, lhz_fr, hzb_fr>>,
                                 !.status = IF h.k = "ZeroDivisionError" THEN h.k ELSE "ok",
                                 !.value = h]
    /\ UNCHANGED <<file, state, table, pres, temp, pstep, fields>>

\* the module-level function, called without any table
InitMix ==
    /\ file = <<>>
    /\ state = "none"
    /\ table = <<>>
    /\ pres = <<>>
    /\ temp = <<>>
    /\ pstep = 0
    /\ fields = <<>>
    /\ ret = NoCall

NextMix ==
    \/ ret.op = "none" /\ \E numpy \in BOOLEAN, bas \in CompVals, lhz \in CompVals, hzb \in CompVals,
                             bas_fr \in Fractions, lhz_fr \in Fractions, hzb_fr \in Fractions :
            HarmonicMeanComp(numpy, bas, lhz, hzb, bas_fr, lhz_fr, hzb_fr)
    \/ Return

SpecMix == InitMix /\ [][NextMix]_vars


(***************************************************************************)
(* Properties.                                                              *)
(***************************************************************************)
\* a complete rectangular grid, one block of rows per pressure, each block in
\* increasing temperature
ValidTable(tb) ==
    LET ts == NpUnique(ColSet(tb, 1))
        nt == Len(ts)
    IN  /\ Len(tb) = Cardinality(ColSet(tb, 0)) * nt
        /\ \A k \in 1..Len(tb) :
              /\ tb[k][2] = ts[((k - 1) % nt) + 1]
              /\ tb[k][1] = tb[((k - 1) \div nt) * nt + 1][1]
        /\ \A a, b \in 1..Len(tb) : (tb[a][1] = tb[b][1] /\ tb[a][2] = tb[b][2]) => a = b

\* the blocks of a valid table appear in increasing pressure
IncreasingBlocks(tb) == \A a, b \in 1..Len(tb) : a <= b => tb[a][1] <= tb[b][1]

\* the sample of column c stored in the row of node (p, t)
Stored(tb, p, t, c) == tb[CHOOSE k \in 1..Len(tb) : tb[k][1] = p /\ tb[k][2] = t][c + 1]

InDomain(S, x) == SetMin(S) <= x /\ x <= SetMax(S)

\* lo and hi are neighbouring entries of the sorted axis
Consecutive(ax, lo, hi) == \E k \in 1..(Len(ax) - 1) : ax[k] = lo /\ ax[k + 1] = hi

AxisPos(ax, x) == CHOOSE k \in 1..Len(ax) : ax[k] = x

IsGetVals == state = "built" /\ ret.op = "get_vals"

\* C1: on a valid table, get_vals at a grid node (p, t), the edges of both axes
\* included, returns for every field exactly the sample stored in that node's row.
C1_CornerExactness ==
    (IsGetVals /\ ValidTable(table)
        /\ ret.args[1] \in ColSet(table, 0) /\ ret.args[2] \in ColSet(table, 1))
    => /\ ret.status = "ok"
       /\ \A k \in 1..6 :
            ret.value[k] = <<RInt(Stored(table, ret.args[1], ret.args[2], k + 1))>>

\* a query at the node of minimum pressure and maximum temperature of a valid
\* table whose blocks are not in increasing pressure
C1_Witness ==
    /\ IsGetVals /\ ValidTable(table) /\ ~IncreasingBlocks(table)
    /\ ret.args[1] = SetMin(ColSet(table, 0))
    /\ ret.args[2] = SetMax(ColSet(table, 1))
    /\ ret.value[6] = <<RInt(Stored(table, ret.args[1], ret.args[2], 7))>>

\* C2: for a query value inside the domain of an axis, the bound search selects
\* two consecutive axis entries low <= value <= high (stated for valid tables
\* whose blocks are in increasing pressure).
C2_BoundsEnclose ==
    (IsGetVals /\ ValidTable(table) /\ IncreasingBlocks(table))
    => /\ InDomain(ColSet(table, 0), ret.args[1])
            => /\ Consecutive(pres, ret.pl, ret.pu)
               /\ ret.pl <= ret.args[1] /\ ret.args[1] <= ret.pu
       /\ (InDomain(ColSet(table, 0), ret.args[1]) /\ InDomain(ColSet(table, 1), ret.args[2]))
            => /\ Consecutive(temp, ret.tl, ret.tu)
               /\ ret.tl <= ret.args[2] /\ ret.args[2] <= ret.tu

\* C3: a query strictly outside the table range on either axis does not fail,
\* sets low = high = the nearest edge of that axis, prints a warning, and, when
\* the query lies on grid lines after clipping, returns the sample stored at the
\* clipped node (stated for valid tables).
C3_DomainClipping ==
    LET p == ret.args[1]
        t == ret.args[2]
        P == ColSet(table, 0)
        T == ColSet(table, 1)
        cp == Max(SetMin(P), Min(p, SetMax(P)))
        ct == Max(SetMin(T), Min(t, SetMax(T)))
    IN  (IsGetVals /\ ValidTable(table) /\ (~InDomain(P, p) \/ ~InDomain(T, t)))
        => /\ ret.status = "ok"
           /\ ret.printed # {}
           /\ ~InDomain(P, p) => (ret.pl = cp /\ ret.pu = cp)
           /\ ~InDomain(T, t) => (ret.tl = ct /\ ret.tu = ct)
           /\ (cp \in P /\ ct \in T)
                => \A k \in 1..6 : ret.value[k] = <<RInt(Stored(table, cp, ct, k + 1))>>

\* C4: interp_points fails, and returns no array, whenever press and temps have
\* different lengths.
C4_PairedLengths ==
    (state = "built" /\ ret.op = "interp_points"
        /\ Len(ret.args[1].items) # Len(ret.args[2].items))
    => ret.status # "ok"

\* C5: construction fails, returning no table, for every input whose row count
\* is not a multiple of the number of unique temperatures; a table that was
\* returned has len(rows) = |pressure axis| x |temperature axis|.
C5_RowCountValidated ==
    /\ (state # "none" /\ Len(file) % Cardinality(ColSet(file, 1)) # 0) => state = "failed"
    /\ state = "built" => Len(table) = Len(pres) * Len(temp)

IsGrid == state = "built" /\ ret.op = "interp_grid" /\ ret.status = "ok"

OnAxis(ax, s) == \A k \in 1..Len(s) : \E m \in 1..Len(ax) : ax[m] = s[k]

C7_BoundaryReduction ==
    LET p == ret.args[1]
        t == ret.args[2]
        T == ColSet(table, 1)
        lo == SetMax({x \in T : x < t})
        hi == SetMin({x \in T : x > t})
    IN  (IsGetVals /\ ValidTable(table) /\ p \in ColSet(table, 0)
            /\ InDomain(T, t) /\ t \notin T)
        => /\ ret.status = "ok"
           /\ \A k \in 1..6 :
                ret.value[k]
                  = <<Rat(Stored(table, p, lo, k + 1) * (hi - t)
                            + Stored(table, p, hi, k + 1) * (t - lo), hi - lo)>>

\* the minimum pressure with a temperature nearer to the upper of its two
\* enclosing axis entries, giving a value that is no stored sample
C7_Witness ==
    /\ IsGetVals /\ ValidTable(table)
    /\ ret.args[1] = SetMin(ColSet(table, 0))
    /\ ret.args[2] = TempVal(3) - 1
    /\ ret.tl = TempVal(2) /\ ret.tu = TempVal(3)
    /\ ret.status = "ok"
    /\ ret.value[1][1] # RInt(Stored(table, ret.args[1], ret.tl, 2))
    /\ ret.value[1][1] # RInt(Stored(table, ret.args[1], ret.tu, 2))

\* C8: with any component value 0, harmonic_mean_comp raises or returns a
\* non-finite result; with non-zero values it returns 1/(bas_fr/bas + lhz_fr/lhz
\* + hzb_fr/hzb).
C8_NoFiniteForZero ==
    LET a == ret.args
        sum == RAdd(RAdd(RMul(a[5], Rat(1, a[2])), RMul(a[6], Rat(1, a[3]))),
                    RMul(a[7], Rat(1, a[4])))
    IN  ret.op = "harmonic_mean_comp"
        => IF a[2] = 0 \/ a[3] = 0 \/ a[4] = 0
           THEN ret.status = "ZeroDivisionError" \/ ret.value.k \in {"inf", "ninf", "nan"}
           ELSE sum[1] # 0 => ret.value = Fin(Rat(sum[2], sum[1]))

\* C9: whatever calls were made, clipped and failed ones included, the sample
\* array, both axes and every per-field grid are those of the freshly built table.
C9_QueriesReadOnly ==
    state = "built"
    => /\ table = file
       /\ pres = NpUnique(ColSet(file, 0))
       /\ temp = NpUnique(ColSet(file, 1))
       /\ pstep = Len(temp)
       /\ fields = FieldDict(file, pstep, Len(pres), Len(temp))

\* a paired query that failed on its lengths, after which the table is intact
C9_Witness ==
    /\ state = "built" /\ ret.op = "interp_points" /\ ret.status = "IndexError"
    /\ table = file /\ fields = FieldDict(file, pstep, Len(pres), Len(temp))

\* C10: for a valid table, whatever the order of its pressure blocks, every
\* per-field grid has shape (|temperature axis|, |pressure axis|) and entry
\* [j][i] is the sample of the row of the i-th sorted pressure and j-th sorted
\* temperature.
C10_FieldGridLayout ==
    (state = "built" /\ ValidTable(table))
    => \A name \in FieldNames :
         /\ Len(fields[name].grid) = Len(temp)
         /\ \A j \in 1..Len(temp) :
              /\ Len(fields[name].grid[j]) = Len(pres)
              /\ \A i \in 1..Len(pres) :
                   fields[name].grid[j][i] = Stored(table, pres[i], temp[j], FieldCol(name))


====
